---- MODULE Spec2Model ----
(***************************************************************************)
(* ClockInBot: the attendance-session store, the confirmation/timeout      *)
(* scheduler (src/tasks/scheduler.py) and the interactive handlers that    *)
(* write the same rows (src/views/attendance_view.py, confirm_view.py).    *)
(* Every await on the store is one atomic step; the synchronous code that  *)
(* follows an await up to the next one belongs to the same step.           *)
(***************************************************************************)
EXTENDS Integers, Sequences, FiniteSets, TLC

VARIABLES clock, attendance_sessions, confirmations, sched, task,
          select_menus, prompts, gateway,
          project_rows, temp_project_data, timing_modal,
          prompt_sent

(* the timing columns of the projects table, the draft of the creation     *)
(* flow, and the timing modal with the text of its two fields              *)
project_setting == <<project_rows, temp_project_data, timing_modal>>

vars == <<clock, attendance_sessions, confirmations, sched, task,
          select_menus, prompts, gateway, project_setting, prompt_sent>>

(* ---------------------------- bounds ----------------------------------- *)
MaxTime == 2
MaxSessions == 2
MaxConfirmations == 2

NULL == -1

(* ------------------------- project settings ---------------------------- *)
MaxProjects == 2

DefaultCheckInterval == 3600
DefaultTimeout == 900
SecondsPerMinute == 60

(* the text a user can type into a field of the timing modal *)
TextInputs == {"abc", "-1", "0", "1", "2", "100"}

(* int(value): the integer a text denotes, a ValueError for any other text *)
IsInt(text) == text \in {"-1", "0", "1", "2", "100"}

IntOf(text) ==
  CASE text = "-1" -> 0 - 1
    [] text = "0" -> 0
    [] text = "1" -> 1
    [] text = "2" -> 2
    [] text = "100" -> 100

(* int(value) * 60, the default for a ValueError or a result <= 0 *)
ToSeconds(text, default) ==
  IF IsInt(text)
  THEN IF IntOf(text) * SecondsPerMinute <= 0 THEN default
       ELSE IntOf(text) * SecondsPerMinute
  ELSE default

AdjustTimeoutDropped(default_timeout, check_interval) == default_timeout

AdjustTimeout(default_timeout, check_interval) ==
  IF default_timeout > check_interval THEN check_interval ELSE default_timeout

(* the two values on_timing_submit and on_creation_timing_submit compute *)
TimingOf(check_interval_input, default_timeout_input) ==
  LET check_interval == ToSeconds(check_interval_input, DefaultCheckInterval)
      default_timeout == ToSeconds(default_timeout_input, DefaultTimeout)
  IN [check_interval |-> check_interval,
      default_timeout |-> AdjustTimeout(default_timeout, check_interval)]

NoDraft == [check_interval |-> NULL, default_timeout |-> NULL]
NoModal == [flow |-> "none", project_id |-> NULL, check_interval_input |-> "",
            default_timeout_input |-> "", submitted |-> FALSE]

(* guild_user ids, interaction tasks running concurrently, and the         *)
(* AttendanceScheduler instances on_ready can create                       *)
Users == {1}
Tasks == {"t1", "t2"}
FirstTask == "t1"
Scheds == {"A", "B"}
FirstSched == "A"

(* rows of the projects table the sessions refer to; both orders of        *)
(* default_timeout and check_interval occur, and one project wants no      *)
(* confirmation                                                            *)
projects ==
  <<[require_confirmation |-> TRUE, check_interval |-> 1, default_timeout |-> 1],
    [require_confirmation |-> TRUE, check_interval |-> 1, default_timeout |-> 2],
    [require_confirmation |-> FALSE, check_interval |-> 1, default_timeout |-> 1]>>

ProjectIds == {p \in DOMAIN projects : projects[p].require_confirmation}
UnmanagedProjectIds == DOMAIN projects \ ProjectIds

(* texts a session's end_summary takes *)
SummaryAuto == "auto-ended: no response"
SummaryNewSession == "auto-ended: new session started"
(* the text typed into the modal of interaction t *)
ModalSummary(t) == t

SessionIds == DOMAIN attendance_sessions
ConfirmationIds == DOMAIN confirmations

(* ------------------------- store operations ---------------------------- *)
GetActiveSessionsNone(sessions, guild_user_id) == {}

GetActiveSessions(sessions, guild_user_id) ==
  {s \in DOMAIN sessions : sessions[s].guild_user_id = guild_user_id
                           /\ sessions[s].end_time = NULL}

GetSessionExists(sessions, session_id) ==
  session_id \in DOMAIN sessions

GetSessionActive(sessions, session_id) ==
  session_id \in DOMAIN sessions /\ sessions[session_id].end_time = NULL

InsertSession(sessions, guild_user_id, project_id, now) ==
  Append(sessions, [guild_user_id |-> guild_user_id, project_id |-> project_id,
                    start_time |-> now, end_time |-> NULL, end_summary |-> "none",
                    status |-> "manual", start_message_id |-> NULL])

(* the rows the WHERE clause of end_session selects; RETURNING gives a row *)
(* back exactly when one is selected                                       *)
EndSessionWhereIdOnly(sessions, session_id) ==
  {s \in DOMAIN sessions : s = session_id}

EndSessionWhere(sessions, session_id) ==
  {s \in DOMAIN sessions : s = session_id /\ sessions[s].end_time = NULL}

EndSessionStatusDropped(sessions, session_id, now, end_summary, status) ==
  [s \in DOMAIN sessions |->
     IF s \in EndSessionWhere(sessions, session_id)
     THEN [sessions[s] EXCEPT !.end_time = now, !.end_summary = end_summary]
     ELSE sessions[s]]

EndSession(sessions, session_id, now, end_summary, status) ==
  [s \in DOMAIN sessions |->
     IF s \in EndSessionWhere(sessions, session_id)
     THEN [sessions[s] EXCEPT !.end_time = now, !.end_summary = end_summary,
                              !.status = status]
     ELSE sessions[s]]

UpdateSessionMessageId(sessions, session_id, message_id) ==
  [sessions EXCEPT ![session_id].start_message_id = message_id]

CreateConfirmation(confs, session_id, now) ==
  Append(confs, [session_id |-> session_id, prompt_time |-> now,
                 responded |-> FALSE, response_time |-> NULL,
                 summary |-> "none", message_id |-> NULL])

(* the rows the WHERE clause of respond_to_confirmation selects *)
RespondWhereIdOnly(confs, confirmation_id) ==
  {c \in DOMAIN confs : c = confirmation_id}

RespondWhereOutstanding(confs, confirmation_id) ==
  {c \in DOMAIN confs : confs[c].responded = FALSE}

RespondWhere(confs, confirmation_id) ==
  {c \in DOMAIN confs : c = confirmation_id /\ confs[c].responded = FALSE}

RespondDeletesRow(confs, confirmation_id, now, summary) ==
  IF RespondWhere(confs, confirmation_id) = {}
  THEN confs
  ELSE [k \in 1..(Len(confs) - 1) |->
          IF k < confirmation_id THEN confs[k] ELSE confs[k + 1]]

RespondToConfirmation(confs, confirmation_id, now, summary) ==
  [c \in DOMAIN confs |->
     IF c \in RespondWhere(confs, confirmation_id)
     THEN [confs[c] EXCEPT !.responded = TRUE, !.response_time = now,
                           !.summary = summary]
     ELSE confs[c]]

(* the rows a query returns, each with its id *)
Row(confs, c) ==
  [id |-> c, prompt_time |-> confs[c].prompt_time, responded |-> confs[c].responded,
   response_time |-> confs[c].response_time]

GetAnsweredConfirmations(confs, session_id) ==
  {Row(confs, c) : c \in {d \in DOMAIN confs : confs[d].session_id = session_id
                                               /\ confs[d].responded = TRUE}}

GetPendingConfirmations(confs, session_id) ==
  {Row(confs, c) : c \in {d \in DOMAIN confs : confs[d].session_id = session_id
                                               /\ confs[d].responded = FALSE}}

GetAllConfirmations(confs, session_id) ==
  {Row(confs, c) : c \in DOMAIN confs}

GetSessionConfirmations(confs, session_id) ==
  {Row(confs, c) : c \in {d \in DOMAIN confs : confs[d].session_id = session_id}}

ActiveSessionsAnyProject(sessions) ==
  {s \in DOMAIN sessions : sessions[s].end_time = NULL}

SessionsRequiringConfirmation(sessions) ==
  {s \in DOMAIN sessions : projects[sessions[s].project_id].require_confirmation}

ActiveSessionsRequiringConfirmation(sessions) ==
  {s \in DOMAIN sessions : sessions[s].end_time = NULL
                           /\ projects[sessions[s].project_id].require_confirmation}

(* ------------------------ confirmation timeline ------------------------ *)
MaxOf(S) == CHOOSE x \in S : \A y \in S : y <= x
MinOf(S) == CHOOSE x \in S : \A y \in S : x <= y

CheckTimeoutStrict(pending_confirmations, default_timeout, now) ==
  \E c \in pending_confirmations : now - c.prompt_time > default_timeout

CheckTimeout(pending_confirmations, default_timeout, now) ==
  \E c \in pending_confirmations : now - c.prompt_time >= default_timeout

(* the branch _process_session takes on the outstanding confirmations:    *)
(* with any, it returns after _check_timeout, timed out or not             *)
PendingDecisionTimeoutOnly(pending_confirmations, default_timeout, now) ==
  IF CheckTimeout(pending_confirmations, default_timeout, now) THEN "TIMED_OUT"
  ELSE "NONE"

PendingDecision(pending_confirmations, default_timeout, now) ==
  IF pending_confirmations # {}
  THEN IF CheckTimeout(pending_confirmations, default_timeout, now) THEN "TIMED_OUT"
       ELSE "AWAITING"
  ELSE "NONE"

CalculateFromStartOnly(all_confirmations, start_time, check_interval) ==
  start_time + check_interval

CalculateEarliestResponse(all_confirmations, start_time, check_interval) ==
  IF all_confirmations = {} THEN start_time + check_interval
  ELSE LET responded_confirmations == {c \in all_confirmations : c.responded}
       IN IF responded_confirmations # {}
          THEN MinOf({c.response_time : c \in responded_confirmations}) + check_interval
          ELSE MinOf({c.prompt_time : c \in all_confirmations}) + check_interval

CalculateNextConfirmationTime(all_confirmations, start_time, check_interval) ==
  IF all_confirmations = {} THEN start_time + check_interval
  ELSE LET responded_confirmations == {c \in all_confirmations : c.responded}
       IN IF responded_confirmations # {}
          THEN MaxOf({c.response_time : c \in responded_confirmations}) + check_interval
          ELSE MinOf({c.prompt_time : c \in all_confirmations}) + check_interval

(* ------------------------------ state ---------------------------------- *)
(* waiting: executions of the job blocked on the lock; skipped: a fire of   *)
(* the current tick was refused by the job's instance limit; errors: the    *)
(* sessions of the current tick whose processing logged an exception;      *)
(* query_error: the candidate query of the latest tick raised               *)
NewScheduler ==
  [running |-> FALSE, pc |-> "idle", check_lock |-> FALSE, processing_sessions |-> {},
   rows |-> {}, session_id |-> NULL, now |-> NULL, pending |-> {},
   signal |-> "NONE", due |-> NULL, confirmation_id |-> NULL,
   waiting |-> 0, skipped |-> FALSE, errors |-> {}, query_error |-> FALSE,
   jobs |-> <<>>]

(* the id start() gives its job *)
JobId == "check_active_sessions"

(* add_job without replace_existing: a second job next to the first *)
AddJobNoReplace(jobs, id) == Append(jobs, id)

(* scheduler.add_job(..., id=id, replace_existing=True) on the job list of *)
(* the inner AsyncIOScheduler                                              *)
AddJob(jobs, id) == Append(SelectSeq(jobs, LAMBDA j : j # id), id)

(* scheduler.shutdown(): whether the job store still lists the job after   *)
(* it is the library's matter; both outcomes are kept                      *)
Shutdown(jobs) == {jobs, <<>>}

(* AttendanceScheduler.start *)
start(r) ==
  IF r.running THEN r
  ELSE [r EXCEPT !.jobs = AddJob(@, JobId), !.running = TRUE]

(* AttendanceScheduler.stop *)
stop(r) ==
  IF ~r.running THEN {r}
  ELSE {[r EXCEPT !.jobs = j, !.running = FALSE] : j \in Shutdown(r.jobs)}

IdleTask == [pc |-> "idle", guild_user_id |-> NULL, project_id |-> NULL,
             session_id |-> NULL, confirmation_id |-> NULL, now |-> NULL]

NoCalls == [auto_end |-> 0, end_work |-> 0]

Init ==
  /\ clock = 0
  /\ attendance_sessions = <<>>
  /\ confirmations = <<>>
  /\ sched = [i \in Scheds |-> IF i = FirstSched
                               THEN start(NewScheduler)
                               ELSE NewScheduler]
  /\ task = [t \in Tasks |-> IdleTask]
  /\ select_menus = {}
  /\ prompts = {}
  /\ prompt_sent = <<>>
  /\ gateway = <<>>
  /\ project_rows = <<>>
  /\ temp_project_data = NoDraft
  /\ timing_modal = NoModal

(* wall-clock time passes *)
Tick ==
  /\ clock < MaxTime
  /\ clock' = clock + 1
  /\ UNCHANGED <<project_setting, prompt_sent, attendance_sessions, confirmations, sched, task, select_menus,
                 prompts, gateway>>

(* ----------------------------- scheduler ------------------------------- *)
(* _process_session returns: the finally clause discards the id, and the   *)
(* loop of _check_active_sessions takes the next row or leaves the lock.   *)
(* The rows come in no stated order. The locals of an invocation keep      *)
(* their last values until the next invocation starts.                     *)
Locals(r, s) ==
  [r EXCEPT !.session_id = s, !.now = NULL, !.pending = {},
            !.signal = "NONE", !.due = NULL, !.confirmation_id = NULL]

NextRow(r) ==
  LET todo == r.rows \ r.processing_sessions
  IN IF todo = {}
     THEN {[r EXCEPT !.pc = "idle", !.check_lock = FALSE, !.rows = {}]}
     ELSE {[Locals(r, s) EXCEPT !.pc = "get1", !.rows = todo \ {s},
                                !.processing_sessions = @ \cup {s}] : s \in todo}

ReturnKeepsMark(r) ==
  NextRow(r)

Return(r) ==
  NextRow([r EXCEPT !.processing_sessions = @ \ {r.session_id}])

(* the job added by start() has no max_instances, so the scheduler's       *)
(* default of one running instance per job applies                         *)
MaxInstancesUnlimited(r) == FALSE

MaxInstancesReached(r) == r.pc # "idle" \/ r.waiting > 0

(* an execution of the job enters the lock: a blocked one if there is any, *)
(* else the one a fire submits                                             *)
Acquire(r, rows) ==
  [r EXCEPT !.check_lock = TRUE, !.rows = rows, !.skipped = FALSE, !.errors = {},
            !.query_error = FALSE,
            !.waiting = IF @ > 0 THEN @ - 1 ELSE 0]

(* the interval job fires and its execution takes the lock and runs the    *)
(* candidate query                                                         *)
CheckActiveSessions(i) ==
  /\ sched[i].running
  /\ sched[i].pc = "idle"
  /\ ~sched[i].check_lock
  /\ ActiveSessionsRequiringConfirmation(attendance_sessions) # {}
  /\ \E r \in NextRow(Acquire(sched[i],
                               ActiveSessionsRequiringConfirmation(attendance_sessions))) :
        sched' = [sched EXCEPT ![i] = r]
  /\ UNCHANGED <<project_setting, prompt_sent, clock, attendance_sessions, confirmations, task, select_menus,
                 prompts, gateway>>

(* the candidate query returns no row: the tick ends at once *)
CheckActiveSessionsNoRows(i) ==
  /\ sched[i].running
  /\ sched[i].pc = "idle"
  /\ ~sched[i].check_lock
  /\ ActiveSessionsRequiringConfirmation(attendance_sessions) = {}
  /\ sched' = [sched EXCEPT ![i] =
                 [Locals(Acquire(sched[i], {}), NULL) EXCEPT !.check_lock = FALSE]]
  /\ UNCHANGED <<project_setting, prompt_sent, clock, attendance_sessions, confirmations, task, select_menus,
                 prompts, gateway>>

(* the candidate query raises: the except clause of _check_active_sessions *)
(* logs the error and the async with leaves the lock                       *)
QueryRaiseKeepsLock(r) ==
  [Locals(Acquire(r, {}), NULL) EXCEPT !.query_error = TRUE]

QueryRaise(r) ==
  [Locals(Acquire(r, {}), NULL) EXCEPT !.check_lock = FALSE, !.query_error = TRUE]

CheckActiveSessionsQueryFail(i) ==
  /\ sched[i].running
  /\ sched[i].pc = "idle"
  /\ ~sched[i].check_lock
  /\ sched' = [sched EXCEPT ![i] = QueryRaise(sched[i])]
  /\ UNCHANGED <<project_setting, prompt_sent, clock, attendance_sessions, confirmations, task, select_menus,
                 prompts, gateway>>

(* the interval job fires while its execution holds the lock: the instance *)
(* limit refuses the fire; without the limit the new execution would block *)
(* on the lock                                                             *)
FireWhileRunning(r) ==
  IF MaxInstancesReached(r)
  THEN [r EXCEPT !.skipped = TRUE]
  ELSE [r EXCEPT !.waiting = @ + 1]

TimerFireWhileRunning(i) ==
  /\ sched[i].running
  /\ sched[i].check_lock
  /\ sched' = [sched EXCEPT ![i] = FireWhileRunning(sched[i])]
  /\ UNCHANGED <<project_setting, prompt_sent, clock, attendance_sessions, confirmations, task, select_menus,
                 prompts, gateway>>

SchedStep(i, nexts) ==
  /\ \E r \in nexts : sched' = [sched EXCEPT ![i] = r]
  /\ UNCHANGED <<project_setting, prompt_sent, clock, attendance_sessions, confirmations, task, select_menus,
                 prompts, gateway>>

(* a store call of _process_session, _check_timeout, _send_confirmation or *)
(* send_confirmation_request raises: the except clause around it logs the  *)
(* error and the loop of _check_active_sessions goes on                    *)
FailPoints == {"get1", "pending", "to_get", "to_end", "get2", "calc", "get3", "get4", "insert"}

RaiseAbortsTick(r) ==
  {[r EXCEPT !.errors = @ \cup {r.session_id}, !.pc = "idle", !.check_lock = FALSE,
             !.rows = {}, !.processing_sessions = {}]}

Raise(r) == Return([r EXCEPT !.errors = @ \cup {r.session_id}])

ProcessSessionFail(i) ==
  /\ sched[i].pc \in FailPoints
  /\ SchedStep(i, Raise(sched[i]))

(* get_session at the start of _process_session, then now is taken *)
ProcessSessionStart(i) ==
  /\ sched[i].pc = "get1"
  /\ SchedStep(i, IF GetSessionActive(attendance_sessions, sched[i].session_id)
                  THEN {[sched[i] EXCEPT !.pc = "pending", !.now = clock]}
                  ELSE Return(sched[i]))

(* now is taken once, after the first get_session, and handed to           *)
(* _check_timeout and to the comparison with the next confirmation time    *)
EvaluationTimeReread(r) == clock

EvaluationTime(r) == r.now

(* get_pending_confirmations and the loop of _check_timeout up to its      *)
(* get_session *)
AfterPendingNoReturn(seen) ==
  CASE seen.signal = "TIMED_OUT" -> {[seen EXCEPT !.pc = "to_get"]}
    [] OTHER -> {[seen EXCEPT !.pc = "get2"]}

AfterPending(seen) ==
  CASE seen.signal = "TIMED_OUT" -> {[seen EXCEPT !.pc = "to_get"]}
    [] seen.signal = "AWAITING" -> Return(seen)
    [] OTHER -> {[seen EXCEPT !.pc = "get2"]}

ProcessSessionPending(i) ==
  /\ sched[i].pc = "pending"
  /\ LET r == sched[i]
         pending == GetPendingConfirmations(confirmations, r.session_id)
         default_timeout == projects[attendance_sessions[r.session_id].project_id].default_timeout
         decision == PendingDecision(pending, default_timeout, EvaluationTime(r))
         seen == [r EXCEPT !.pending = pending, !.signal = decision]
     IN SchedStep(i, AfterPending(seen))

(* get_session of _check_timeout before the end write *)
CheckTimeoutGetSession(i) ==
  /\ sched[i].pc = "to_get"
  /\ SchedStep(i, IF GetSessionActive(attendance_sessions, sched[i].session_id)
                  THEN {[sched[i] EXCEPT !.pc = "to_end"]}
                  ELSE Return(sched[i]))

(* the conditional end write of _check_timeout; the row comes back only    *)
(* to the writer that changed it                                           *)
CheckTimeoutEndSession(i) ==
  /\ sched[i].pc = "to_end"
  /\ LET r == sched[i]
         updated == EndSessionWhere(attendance_sessions, r.session_id) # {}
     IN /\ attendance_sessions' =
             EndSession(attendance_sessions, r.session_id, clock, SummaryAuto, "auto")
        /\ \E n \in (IF updated
                     THEN {[r EXCEPT !.pc = "ui"]}
                     ELSE Return(r)) :
              sched' = [sched EXCEPT ![i] = n]
  /\ UNCHANGED <<project_setting, prompt_sent, clock, confirmations, task, select_menus, prompts, gateway>>

(* channel.send of the prompt: the time each prompt message still in the   *)
(* channel was sent at, from which delete_after and the view timeout count *)
SentAfter == [c \in prompts' |-> IF c \in DOMAIN prompt_sent THEN prompt_sent[c] ELSE clock]

(* prompt messages a cleanup deletes: those whose id the row records *)
CleanupPendingConfirmationMessages(confs, session_id) ==
  {c \in DOMAIN confs : confs[c].session_id = session_id /\ ~confs[c].responded
                        /\ confs[c].message_id # NULL}

(* _check_timeout returns True and _process_session returns *)
AfterAutoEndPrompt(r) == {[r EXCEPT !.pc = "insert"]}

AfterAutoEnd(r) == Return(r)

(* _update_ui_for_auto_end: status message, start message, prompt cleanup *)
UpdateUiForAutoEnd(i) ==
  /\ sched[i].pc = "ui"
  /\ gateway' = [gateway EXCEPT ![sched[i].session_id].auto_end = @ + 1]
  /\ prompts' = prompts \ CleanupPendingConfirmationMessages(confirmations, sched[i].session_id)
  /\ prompt_sent' = SentAfter
  /\ \E n \in AfterAutoEnd(sched[i]) : sched' = [sched EXCEPT ![i] = n]
  /\ UNCHANGED <<project_setting, clock, attendance_sessions, confirmations, task, select_menus>>

(* a call of _update_ui_for_auto_end raises: its own except clause logs    *)
(* the error, nothing reaches _check_timeout                               *)
UiRaisePropagates(r) == Raise(r)

UiRaise(r) == AfterAutoEnd(r)

UpdateUiForAutoEndFail(i) ==
  /\ sched[i].pc = "ui"
  /\ SchedStep(i, UiRaise(sched[i]))

(* second get_session of _process_session, no confirmation is outstanding *)
ProcessSessionRecheck(i) ==
  /\ sched[i].pc = "get2"
  /\ SchedStep(i, IF GetSessionActive(attendance_sessions, sched[i].session_id)
                  THEN {[sched[i] EXCEPT !.pc = "calc"]}
                  ELSE Return(sched[i]))

(* _calculate_next_confirmation_time and the comparison with now; the      *)
(* start_time is the one of the candidate row                              *)
ProcessSessionCalculate(i) ==
  /\ sched[i].pc = "calc"
  /\ LET r == sched[i]
         session == attendance_sessions[r.session_id]
         all == GetSessionConfirmations(confirmations, r.session_id)
         next_confirmation_time ==
           CalculateNextConfirmationTime(all, session.start_time,
                                         projects[session.project_id].check_interval)
     IN SchedStep(i,
          IF EvaluationTime(r) >= next_confirmation_time
          THEN {[r EXCEPT !.due = next_confirmation_time,
                          !.signal = "PROMPT_DUE", !.pc = "get3"]}
          ELSE Return([r EXCEPT !.due = next_confirmation_time, !.signal = "IDLE"]))

(* get_session of _process_session before _send_confirmation *)
ProcessSessionFinalCheck(i) ==
  /\ sched[i].pc = "get3"
  /\ SchedStep(i, IF GetSessionActive(attendance_sessions, sched[i].session_id)
                  THEN {[sched[i] EXCEPT !.pc = "get4"]}
                  ELSE Return(sched[i]))

(* get_session of _send_confirmation *)
SendConfirmationGetSession(i) ==
  /\ sched[i].pc = "get4"
  /\ SchedStep(i, IF GetSessionActive(attendance_sessions, sched[i].session_id)
                  THEN {[sched[i] EXCEPT !.pc = "insert"]}
                  ELSE Return(sched[i]))

(* create_confirmation in send_confirmation_request *)
SendConfirmationRequestCreate(i) ==
  /\ sched[i].pc = "insert"
  /\ Len(confirmations) < MaxConfirmations
  /\ confirmations' = CreateConfirmation(confirmations, sched[i].session_id, clock)
  /\ sched' = [sched EXCEPT ![i].pc = "send",
                            ![i].confirmation_id = Len(confirmations) + 1]
  /\ UNCHANGED <<project_setting, prompt_sent, clock, attendance_sessions, task, select_menus, prompts, gateway>>

(* the rest of send_confirmation_request: the prompt is delivered to the   *)
(* channel, or the channel, the user or the send fails                     *)
SendConfirmationRequestDeliver(i) ==
  /\ sched[i].pc = "send"
  /\ \E delivered \in BOOLEAN :
        prompts' = IF delivered THEN prompts \cup {sched[i].confirmation_id} ELSE prompts
  /\ prompt_sent' = SentAfter
  /\ \E n \in Return(sched[i]) : sched' = [sched EXCEPT ![i] = n]
  /\ UNCHANGED <<project_setting, clock, attendance_sessions, confirmations, task, select_menus, gateway>>

(* on_ready fires again: setup_scheduler builds another AttendanceScheduler *)
(* and starts it; the earlier one keeps its job                            *)
OnReady ==
  /\ \E i \in Scheds :
        /\ ~sched[i].running
        /\ sched' = [sched EXCEPT ![i] = start(@)]
  /\ UNCHANGED <<project_setting, prompt_sent, clock, attendance_sessions, confirmations, task, select_menus,
                 prompts, gateway>>

(* the process stops and is started again: the rows and the messages      *)
(* stay, every coroutine and every view of the old process is gone, and    *)
(* on_ready sets up and starts a scheduler                                 *)
Restart ==
  /\ sched' = [i \in Scheds |-> IF i = FirstSched
                                THEN start(NewScheduler)
                                ELSE NewScheduler]
  /\ task' = [t \in Tasks |-> IdleTask]
  /\ select_menus' = {}
  /\ temp_project_data' = NoDraft
  /\ timing_modal' = NoModal
  /\ UNCHANGED <<prompt_sent, project_rows, clock, attendance_sessions, confirmations, prompts, gateway>>

SchedulerNext(i) ==
  \/ CheckActiveSessions(i)
  \/ ProcessSessionStart(i)
  \/ ProcessSessionPending(i)
  \/ CheckTimeoutGetSession(i)
  \/ CheckTimeoutEndSession(i)
  \/ UpdateUiForAutoEnd(i)
  \/ ProcessSessionRecheck(i)
  \/ ProcessSessionCalculate(i)
  \/ ProcessSessionFinalCheck(i)
  \/ SendConfirmationGetSession(i)
  \/ SendConfirmationRequestCreate(i)
  \/ SendConfirmationRequestDeliver(i)

(* ------------------------- interactive handlers ------------------------ *)
TaskStep(t, n) ==
  task' = [task EXCEPT ![t] = n]

(* handle_start_work: the select menu is shown when get_active_session     *)
(* finds no active session; the ephemeral menu then stays on screen        *)
HandleStartWork(u) ==
  /\ u \notin select_menus
  /\ GetActiveSessions(attendance_sessions, u) = {}
  /\ select_menus' = select_menus \cup {u}
  /\ UNCHANGED <<project_setting, prompt_sent, clock, attendance_sessions, confirmations, sched, task, prompts, gateway>>

(* handle_project_selection up to start_session's get_active_session:      *)
(* start_session takes now first; fetchrow returns one of the active rows  *)
HandleProjectSelection(t, u, p) ==
  /\ task[t].pc = "idle"
  /\ u \in select_menus
  /\ Len(attendance_sessions)
       + Cardinality({x \in Tasks : task[x].pc \in {"ss_end", "ss_insert"}}) < MaxSessions
  /\ LET active == GetActiveSessions(attendance_sessions, u)
         started == [IdleTask EXCEPT !.guild_user_id = u, !.project_id = p, !.now = clock]
     IN IF active = {}
        THEN TaskStep(t, [started EXCEPT !.pc = "ss_insert"])
        ELSE \E s \in active : TaskStep(t, [started EXCEPT !.pc = "ss_end", !.session_id = s])
  /\ UNCHANGED <<project_setting, prompt_sent, clock, attendance_sessions, confirmations, sched, select_menus,
                 prompts, gateway>>

(* start_session ends the active session it found *)
StartSessionEndActive(t) ==
  /\ task[t].pc = "ss_end"
  /\ attendance_sessions' =
       EndSession(attendance_sessions, task[t].session_id, clock, SummaryNewSession, "manual")
  /\ TaskStep(t, [task[t] EXCEPT !.pc = "ss_insert", !.session_id = NULL])
  /\ UNCHANGED <<project_setting, prompt_sent, clock, confirmations, sched, select_menus, prompts, gateway>>

(* start_session inserts the new row; the handler then sends the start     *)
(* message and is left with update_session_message_id to do                *)
StartSessionInsert(t) ==
  /\ task[t].pc = "ss_insert"
  /\ attendance_sessions' =
       InsertSession(attendance_sessions, task[t].guild_user_id, task[t].project_id, task[t].now)
  /\ gateway' = Append(gateway, NoCalls)
  /\ TaskStep(t, [task[t] EXCEPT !.pc = "ps_update", !.session_id = Len(attendance_sessions) + 1])
  /\ UNCHANGED <<project_setting, prompt_sent, clock, confirmations, sched, select_menus, prompts>>

(* update_session_message_id with the id of the start message just sent *)
HandleProjectSelectionRecord(t) ==
  /\ task[t].pc = "ps_update"
  /\ attendance_sessions' =
       UpdateSessionMessageId(attendance_sessions, task[t].session_id, task[t].session_id)
  /\ TaskStep(t, IdleTask)
  /\ UNCHANGED <<project_setting, prompt_sent, clock, confirmations, sched, select_menus, prompts, gateway>>

(* handle_end_work up to the modal (or defer): the active session found    *)
(* now is the one the handler ends later                                   *)
HandleEndWork(t, u) ==
  /\ task[t].pc = "idle"
  /\ \E s \in GetActiveSessions(attendance_sessions, u) :
        TaskStep(t, [IdleTask EXCEPT !.pc = "ew_end", !.guild_user_id = u, !.session_id = s])
  /\ UNCHANGED <<project_setting, prompt_sent, clock, attendance_sessions, confirmations, sched, select_menus,
                 prompts, gateway>>

(* end_session of handle_end_work with the modal's summary; without a row  *)
(* back the handler reports the error and returns                          *)
SessionActiveNow(r, sessions) ==
  IF GetActiveSessions(sessions, r.guild_user_id) = {} THEN r.session_id
  ELSE CHOOSE s \in GetActiveSessions(sessions, r.guild_user_id) : TRUE

(* the id handed to end_session: the one of the row get_active_session     *)
(* returned before the modal was shown                                     *)
SessionObserved(r, sessions) == r.session_id

HandleEndWorkEndSession(t) ==
  /\ task[t].pc = "ew_end"
  /\ attendance_sessions' =
       EndSession(attendance_sessions, SessionObserved(task[t], attendance_sessions),
                  clock, ModalSummary(t), "manual")
  /\ IF EndSessionWhere(attendance_sessions,
                        SessionObserved(task[t], attendance_sessions)) # {}
     THEN TaskStep(t, [task[t] EXCEPT !.pc = "ew_ui"])
     ELSE TaskStep(t, IdleTask)
  /\ UNCHANGED <<project_setting, prompt_sent, clock, confirmations, sched, select_menus, prompts, gateway>>

(* the completion side of handle_end_work: prompt cleanup, status message, *)
(* start message turned into the completion message                        *)
HandleEndWorkUpdateUi(t) ==
  /\ task[t].pc = "ew_ui"
  /\ gateway' = [gateway EXCEPT ![task[t].session_id].end_work = @ + 1]
  /\ prompts' = prompts \ CleanupPendingConfirmationMessages(confirmations, task[t].session_id)
  /\ prompt_sent' = SentAfter
  /\ TaskStep(t, IdleTask)
  /\ UNCHANGED <<project_setting, clock, attendance_sessions, confirmations, sched, select_menus>>

(* handle_confirm_button: a prompt of the user's channel is pressed and    *)
(* get_active_session finds a session                                      *)
HandleConfirmButton(t, u) ==
  /\ task[t].pc = "idle"
  /\ \E m \in prompts : attendance_sessions[confirmations[m].session_id].guild_user_id = u
  /\ \E s \in GetActiveSessions(attendance_sessions, u) :
        TaskStep(t, [IdleTask EXCEPT !.pc = "cf_pending", !.guild_user_id = u, !.session_id = s])
  /\ UNCHANGED <<project_setting, prompt_sent, clock, attendance_sessions, confirmations, sched, select_menus,
                 prompts, gateway>>

(* get_pending_confirmations of get_confirmation_info_from_channel: the    *)
(* latest prompt_time is the confirmation the modal is opened for          *)
LatestConfirmation(pending) ==
  {c.id : c \in {d \in pending : \A e \in pending : e.prompt_time <= d.prompt_time}}

GetConfirmationInfo(t) ==
  /\ task[t].pc = "cf_pending"
  /\ LET pending == GetPendingConfirmations(confirmations, task[t].session_id)
     IN IF pending = {}
        THEN TaskStep(t, IdleTask)
        ELSE \E c \in LatestConfirmation(pending) :
                TaskStep(t, [task[t] EXCEPT !.pc = "cf_respond", !.confirmation_id = c,
                                            !.now = clock])
  /\ UNCHANGED <<project_setting, prompt_sent, clock, attendance_sessions, confirmations, sched, select_menus,
                 prompts, gateway>>

(* respond_to_confirmation takes now when it is called, before it waits    *)
(* for a connection: the time written is one between the opening of the    *)
(* modal and the UPDATE                                                    *)
ResponseTime(opened, committed) == opened..committed

(* respond_to_confirmation from the modal's on_submit (or directly when    *)
(* the project wants no modal); on success the prompt message is deleted   *)
ConfirmationRespond(t) ==
  /\ task[t].pc = "cf_respond"
  /\ \E now \in ResponseTime(task[t].now, clock) :
        confirmations' =
          RespondToConfirmation(confirmations, task[t].confirmation_id, now, ModalSummary(t))
  /\ prompts' = IF RespondWhere(confirmations, task[t].confirmation_id) # {}
                THEN prompts \ {task[t].confirmation_id}
                ELSE prompts
  /\ prompt_sent' = SentAfter
  /\ TaskStep(t, IdleTask)
  /\ UNCHANGED <<project_setting, clock, attendance_sessions, sched, select_menus, gateway>>

StartNext(t) ==
  \/ \E u \in Users, p \in ProjectIds : HandleProjectSelection(t, u, p)
  \/ StartSessionEndActive(t)
  \/ StartSessionInsert(t)
  \/ HandleProjectSelectionRecord(t)

EndWorkNext(t) ==
  \/ \E u \in Users : HandleEndWork(t, u)
  \/ HandleEndWorkEndSession(t)
  \/ HandleEndWorkUpdateUi(t)

ConfirmNext(t) ==
  \/ \E u \in Users : HandleConfirmButton(t, u)
  \/ GetConfirmationInfo(t)
  \/ ConfirmationRespond(t)

(* a project without require_confirmation is selected *)
StartUnmanaged(t) ==
  \E u \in Users, p \in UnmanagedProjectIds : HandleProjectSelection(t, u, p)

(* --------------------------- specifications ---------------------------- *)
(* one scheduler, one interaction in flight at a time *)
(* the basic-info modal of the creation flow is submitted: the draft gets  *)
(* the default timing                                                      *)
OnBasicInfoSubmit ==
  /\ temp_project_data' = [check_interval |-> DefaultCheckInterval,
                           default_timeout |-> DefaultTimeout]
  /\ UNCHANGED <<prompt_sent, project_rows, timing_modal, clock, attendance_sessions, confirmations,
                 sched, task, select_menus, prompts, gateway>>

(* the user fills in the timing modal of the creation flow or of a         *)
(* project's detail panel and submits it                                   *)
SubmitTimingModal(flow, project_id, check_interval_input, default_timeout_input) ==
  /\ ~timing_modal.submitted
  /\ \/ flow = "creation" /\ project_id = NULL /\ temp_project_data # NoDraft
     \/ flow = "edit" /\ project_id \in DOMAIN project_rows
  /\ timing_modal' = [flow |-> flow, project_id |-> project_id,
                      check_interval_input |-> check_interval_input,
                      default_timeout_input |-> default_timeout_input,
                      submitted |-> TRUE]
  /\ UNCHANGED <<prompt_sent, project_rows, temp_project_data, clock, attendance_sessions,
                 confirmations, sched, task, select_menus, prompts, gateway>>

OnCreationTimingSubmit ==
  /\ timing_modal.submitted
  /\ timing_modal.flow = "creation"
  /\ temp_project_data' = TimingOf(timing_modal.check_interval_input,
                                   timing_modal.default_timeout_input)
  /\ timing_modal' = [timing_modal EXCEPT !.submitted = FALSE]
  /\ UNCHANGED <<prompt_sent, project_rows, clock, attendance_sessions, confirmations,
                 sched, task, select_menus, prompts, gateway>>

(* create_project with the draft *)
CreateProjectCallback ==
  /\ temp_project_data # NoDraft
  /\ Len(project_rows) < MaxProjects
  /\ project_rows' = Append(project_rows, temp_project_data)
  /\ UNCHANGED <<prompt_sent, temp_project_data, timing_modal, clock, attendance_sessions,
                 confirmations, sched, task, select_menus, prompts, gateway>>

(* update_project with both values in one UPDATE *)
OnTimingSubmit ==
  /\ timing_modal.submitted
  /\ timing_modal.flow = "edit"
  /\ LET timing == TimingOf(timing_modal.check_interval_input,
                            timing_modal.default_timeout_input)
     IN project_rows' = [project_rows EXCEPT ![timing_modal.project_id] = timing]
  /\ timing_modal' = [timing_modal EXCEPT !.submitted = FALSE]
  /\ UNCHANGED <<prompt_sent, temp_project_data, clock, attendance_sessions, confirmations,
                 sched, task, select_menus, prompts, gateway>>

NextTiming ==
  \/ OnBasicInfoSubmit
  \/ \E ci, dt \in TextInputs :
        \/ SubmitTimingModal("creation", NULL, ci, dt)
        \/ \E p \in 1..MaxProjects : SubmitTimingModal("edit", p, ci, dt)
  \/ OnCreationTimingSubmit
  \/ CreateProjectCallback
  \/ OnTimingSubmit

SpecTiming == Init /\ [][NextTiming]_vars

(* delete_after of the prompt message and timeout of its ConfirmationView, *)
(* both counted from channel.send, in the unit of the clock                *)
DeleteAfter == 1

(* the prompt message of confirmation c has been in the channel for        *)
(* delete_after: the message is deleted, and with it the confirm button    *)
(* (on_timeout disables the button at the same age)                        *)
MessageDeleteAfter(c) ==
  /\ c \in prompts
  /\ clock - prompt_sent[c] >= DeleteAfter
  /\ prompts' = prompts \ {c}
  /\ prompt_sent' = SentAfter
  /\ UNCHANGED <<project_setting, clock, attendance_sessions, confirmations, sched, task,
                 select_menus, gateway>>

Next ==
  \/ Tick
  \/ \E u \in Users : HandleStartWork(u)
  \/ StartNext(FirstTask)
  \/ EndWorkNext(FirstTask)
  \/ ConfirmNext(FirstTask)
  \/ SchedulerNext(FirstSched)

Spec == Init /\ [][Next]_vars

(* the prompt messages age: delete_after and the view timeout act *)
NextExpiry ==
  \/ Next
  \/ \E c \in 1..MaxConfirmations : MessageDeleteAfter(c)

SpecExpiry == Init /\ [][NextExpiry]_vars

(* start() and stop() of a scheduler called at any time *)
SchedulerStart(i) ==
  /\ sched' = [sched EXCEPT ![i] = start(@)]
  /\ UNCHANGED <<project_setting, prompt_sent, clock, attendance_sessions, confirmations, task,
                 select_menus, prompts, gateway>>

SchedulerStop(i) ==
  /\ \E r \in stop(sched[i]) : sched' = [sched EXCEPT ![i] = r]
  /\ UNCHANGED <<project_setting, prompt_sent, clock, attendance_sessions, confirmations, task,
                 select_menus, prompts, gateway>>

NextLifecycle ==
  \/ Next
  \/ SchedulerStart(FirstSched)
  \/ SchedulerStop(FirstSched)

SpecLifecycle == Init /\ [][NextLifecycle]_vars

(* a second project selection arrives while an interaction is in flight *)
NextStart ==
  \/ Next
  \/ \E t \in Tasks \ {FirstTask} : StartNext(t)

SpecStart == Init /\ [][NextStart]_vars

(* a second press of the confirm button arrives while an interaction is    *)
(* in flight                                                               *)
NextRespond ==
  \/ Next
  \/ \E t \in Tasks \ {FirstTask} : ConfirmNext(t)

SpecRespond == Init /\ [][NextRespond]_vars

(* on_ready fires again and a second scheduler runs beside the first *)
NextReady ==
  \/ Tick
  \/ \E u \in Users : HandleStartWork(u)
  \/ StartNext(FirstTask)
  \/ EndWorkNext(FirstTask)
  \/ SchedulerNext(FirstSched)
  \/ OnReady
  \/ \E i \in Scheds \ {FirstSched} : SchedulerNext(i)

SpecReady == Init /\ [][NextReady]_vars

(* timer fires keep coming while a tick runs *)
NextTimer ==
  \/ Tick
  \/ \E u \in Users : HandleStartWork(u)
  \/ StartNext(FirstTask)
  \/ SchedulerNext(FirstSched)
  \/ TimerFireWhileRunning(FirstSched)

SpecTimer == Init /\ [][NextTimer]_vars

(* the user starts work and then neither responds nor ends work; the       *)
(* scheduler's job keeps being run                                         *)
NextLive ==
  \/ Tick
  \/ \E u \in Users : HandleStartWork(u)
  \/ StartNext(FirstTask)
  \/ SchedulerNext(FirstSched)

SpecLive == Init /\ [][NextLive]_vars /\ WF_vars(SchedulerNext(FirstSched))

(* projects with and without require_confirmation are worked on *)
NextPolicy ==
  \/ Next
  \/ StartUnmanaged(FirstTask)
  \/ CheckActiveSessionsNoRows(FirstSched)

SpecPolicy == Init /\ [][NextPolicy]_vars

(* store calls of the scheduler fail while two sessions are candidates *)
NextFail ==
  \/ Tick
  \/ \E u \in Users : HandleStartWork(u)
  \/ \E t \in Tasks : StartNext(t)
  \/ SchedulerNext(FirstSched)
  \/ ProcessSessionFail(FirstSched)
  \/ CheckActiveSessionsQueryFail(FirstSched)
  \/ UpdateUiForAutoEndFail(FirstSched)

SpecFail == Init /\ [][NextFail]_vars

(* the process can stop at any point and is restarted *)
NextCrash ==
  \/ Tick
  \/ \E u \in Users : HandleStartWork(u)
  \/ StartNext(FirstTask)
  \/ SchedulerNext(FirstSched)
  \/ Restart

SpecCrash == Init /\ [][NextCrash]_vars

(* ------------------------------ claims --------------------------------- *)
ActiveOf(sessions, u) ==
  {s \in DOMAIN sessions : sessions[s].guild_user_id = u /\ sessions[s].end_time = NULL}

OutstandingIn(confs, s) ==
  {c \in DOMAIN confs : confs[c].session_id = s /\ ~confs[c].responded}

RespondedIn(confs, s) ==
  {c \in DOMAIN confs : confs[c].session_id = s /\ confs[c].responded}

Ended(s) == attendance_sessions[s].end_time # NULL

Stepped(i) == sched'[i] # sched[i]

PolicyOf(s) == projects[attendance_sessions[s].project_id]

(* C1: every user has at most one session with end_time = null, in every  *)
(* reachable state, two concurrent start_session calls included.           *)
C1_AtMostOneActiveSession ==
  \A u \in Users : Cardinality(ActiveOf(attendance_sessions, u)) <= 1

C3_AutoEndOnce ==
  \A s \in SessionIds :
     Cardinality({i \in Scheds : sched[i].pc = "ui" /\ sched[i].session_id = s})
       + gateway[s].auto_end
     = IF Ended(s) /\ attendance_sessions[s].status = "auto" THEN 1 ELSE 0

(* one scheduler has written and has its hook, the other is about to write *)
C3_Witness ==
  \E i \in Scheds, j \in Scheds :
     /\ i # j
     /\ sched[i].pc = "to_end"
     /\ sched[j].session_id = sched[i].session_id
     /\ sched[j].signal = "TIMED_OUT"
     /\ sched[j].pc \in {"ui", "idle"}
     /\ Ended(sched[i].session_id)
     /\ attendance_sessions[sched[i].session_id].status = "auto"

(* C4: when end-work and the auto-end race on a session, one end write     *)
(* takes effect: the end fields, once written, stay those of the first     *)
(* writer, and only the writer that got the row back performs its UI side   *)
(* effects.                                                                *)
UiOfAutoEnd(s) ==
  Cardinality({i \in Scheds : sched[i].pc = "ui" /\ sched[i].session_id = s})
    + gateway[s].auto_end

UiOfEndWork(s) ==
  Cardinality({t \in Tasks : task[t].pc = "ew_ui" /\ task[t].session_id = s})
    + gateway[s].end_work

C4_FirstWriterWins ==
  [][/\ \A s \in DOMAIN attendance_sessions :
           Ended(s) =>
              /\ attendance_sessions'[s].end_time = attendance_sessions[s].end_time
              /\ attendance_sessions'[s].end_summary = attendance_sessions[s].end_summary
              /\ attendance_sessions'[s].status = attendance_sessions[s].status
     /\ \A s \in DOMAIN attendance_sessions' :
           /\ UiOfAutoEnd(s)' + UiOfEndWork(s)' <= 1
           /\ UiOfAutoEnd(s)' = 1 =>
                 /\ attendance_sessions'[s].end_time # NULL
                 /\ attendance_sessions'[s].status = "auto"
                 /\ attendance_sessions'[s].end_summary = SummaryAuto
           /\ UiOfEndWork(s)' = 1 =>
                 /\ attendance_sessions'[s].end_time # NULL
                 /\ attendance_sessions'[s].status = "manual"
                 /\ attendance_sessions'[s].end_summary \in {ModalSummary(t) : t \in Tasks}
    ]_vars

(* end-work has ended the session and the scheduler, past its get_session, *)
(* is about to issue its end write                                         *)
C4_Witness ==
  \E i \in Scheds :
     /\ sched[i].pc = "to_end"
     /\ Ended(sched[i].session_id)
     /\ attendance_sessions[sched[i].session_id].status = "manual"
     /\ attendance_sessions[sched[i].session_id].end_summary = ModalSummary(FirstTask)
     /\ UiOfEndWork(sched[i].session_id) = 1

(* C5: a confirmation is never inserted for a session whose end_time is    *)
(* non-null at the moment of the insert.                                   *)
C5_NoOrphanedConfirmation ==
  [][Len(confirmations') > Len(confirmations) =>
        attendance_sessions[confirmations'[Len(confirmations')].session_id].end_time = NULL
    ]_vars

(* C6: with exactly one outstanding confirmation the Processor signals     *)
(* TIMED_OUT and goes on to the end write iff now - prompt_time >=         *)
(* default_timeout; otherwise it signals AWAITING and returns without      *)
(* changing a session or a confirmation.                                   *)
C6_TimeoutBoundary ==
  [][\A i \in Scheds :
        (sched[i].pc = "pending" /\ Stepped(i)
           /\ Cardinality(OutstandingIn(confirmations, sched[i].session_id)) = 1) =>
        LET s == sched[i].session_id
            c == CHOOSE c \in OutstandingIn(confirmations, s) : TRUE
        IN IF sched[i].now - confirmations[c].prompt_time >= PolicyOf(s).default_timeout
           THEN /\ sched'[i].pc = "to_get"
                /\ sched'[i].session_id = s
                /\ sched'[i].signal = "TIMED_OUT"
           ELSE /\ sched'[i].pc \in {"idle", "get1"}
                /\ sched'[i].pc = "idle" => sched'[i].signal = "AWAITING"
                /\ confirmations' = confirmations
                /\ attendance_sessions' = attendance_sessions
    ]_vars

(* the timeout is detected at the boundary now - prompt_time = default_timeout *)
C6_Witness ==
  \E i \in Scheds :
     /\ sched[i].pc = "to_get"
     /\ sched[i].signal = "TIMED_OUT"
     /\ Cardinality(sched[i].pending) = 1
     /\ \A c \in sched[i].pending :
           sched[i].now - c.prompt_time = PolicyOf(sched[i].session_id).default_timeout

(* C7: without an outstanding confirmation due_at is start_time +          *)
(* check_interval when the session has no confirmation, and else the       *)
(* greatest response_time + check_interval; the Processor signals          *)
(* PROMPT_DUE iff now >= due_at and IDLE otherwise.                        *)
DueAt(s) ==
  IF {c \in DOMAIN confirmations : confirmations[c].session_id = s} = {}
  THEN attendance_sessions[s].start_time + PolicyOf(s).check_interval
  ELSE LET times == {confirmations[c].response_time : c \in RespondedIn(confirmations, s)}
       IN (CHOOSE x \in times : \A y \in times : y <= x) + PolicyOf(s).check_interval

C7_DueAt ==
  [][\A i \in Scheds :
        (sched[i].pc = "calc" /\ Stepped(i)
           /\ OutstandingIn(confirmations, sched[i].session_id) = {}) =>
        LET s == sched[i].session_id IN
        IF sched[i].now >= DueAt(s)
        THEN /\ sched'[i].pc = "get3"
             /\ sched'[i].signal = "PROMPT_DUE"
             /\ sched'[i].due = DueAt(s)
        ELSE /\ sched'[i].pc \in {"idle", "get1"}
             /\ sched'[i].pc = "idle" =>
                   (sched'[i].signal = "IDLE" /\ sched'[i].due = DueAt(s))
    ]_vars

(* IDLE one time unit before a due time taken from the later of two        *)
(* different response times                                                *)
C7_Witness ==
  \E i \in Scheds :
     /\ sched[i].pc = "idle"
     /\ sched[i].signal = "IDLE"
     /\ LET s == sched[i].session_id
            times == {confirmations[c].response_time : c \in RespondedIn(confirmations, s)}
        IN /\ Cardinality(times) = 2
           /\ OutstandingIn(confirmations, s) = {}
           /\ sched[i].due = DueAt(s)
           /\ sched[i].now = sched[i].due - 1

(* C8: an evaluation yields one signal, and the outstanding confirmation   *)
(* has priority: with one outstanding the signal is AWAITING or TIMED_OUT  *)
(* and the invocation creates no confirmation, whatever check_interval and *)
(* default_timeout are.                                                    *)
C8_TimeoutPriority ==
  [][/\ \A i \in Scheds :
           (sched[i].pc = "pending" /\ Stepped(i)
              /\ OutstandingIn(confirmations, sched[i].session_id) # {}) =>
           /\ sched'[i].pc \in {"to_get", "idle", "get1"}
           /\ sched'[i].pc = "to_get" => sched'[i].signal = "TIMED_OUT"
           /\ sched'[i].pc = "idle" => sched'[i].signal \in {"AWAITING"}
           /\ confirmations' = confirmations
     /\ \A i \in Scheds :
           (sched[i].pc = "calc" /\ Stepped(i)) =>
           \/ sched'[i].pc = "get3" /\ sched'[i].signal = "PROMPT_DUE"
           \/ sched'[i].pc \in {"idle", "get1"}
                /\ (sched'[i].pc = "idle" => sched'[i].signal = "IDLE")
     /\ \A i \in Scheds :
           sched'[i].pc \in {"get2", "calc", "get3", "get4", "insert", "send"} =>
           /\ sched'[i].pending = {}
           /\ sched'[i].signal \in {"NONE", "PROMPT_DUE"}
     /\ Len(confirmations') > Len(confirmations) =>
           \E i \in Scheds : sched[i].pc = "insert" /\ sched[i].pending = {}
                             /\ sched[i].signal = "PROMPT_DUE"
    ]_vars

(* AWAITING although default_timeout > check_interval and now is past      *)
(* start_time + check_interval and prompt_time + check_interval            *)
C8_Witness ==
  \E i \in Scheds :
     /\ sched[i].pc = "idle"
     /\ sched[i].signal = "AWAITING"
     /\ LET s == sched[i].session_id
        IN /\ PolicyOf(s).default_timeout > PolicyOf(s).check_interval
           /\ sched[i].now >= attendance_sessions[s].start_time + PolicyOf(s).check_interval
           /\ \E c \in sched[i].pending :
                 sched[i].now >= c.prompt_time + PolicyOf(s).check_interval
           /\ Cardinality(OutstandingIn(confirmations, s)) = 1

(* C9: once end_time is non-null no operation changes any field of the     *)
(* session row.                                                            *)
C9_ImmutableOnceEnded ==
  [][\A s \in DOMAIN attendance_sessions :
        Ended(s) => attendance_sessions'[s] = attendance_sessions[s]
    ]_vars

(* C10: a confirmation is mutated at most once: the first                  *)
(* respond_to_confirmation sets responded, response_time and summary, and  *)
(* a later call gets no row and changes nothing.                           *)
C10_RespondOnce ==
  [][/\ \A c \in DOMAIN confirmations :
           /\ confirmations[c].responded => confirmations'[c] = confirmations[c]
           /\ (~confirmations[c].responded /\ confirmations'[c].responded) =>
                 /\ confirmations[c].response_time = NULL
                 /\ confirmations'[c].response_time \in confirmations[c].prompt_time..clock
                 /\ \E t \in Tasks : /\ task[t].pc = "cf_respond"
                                     /\ task[t].confirmation_id = c
                                     /\ confirmations'[c].summary = ModalSummary(t)
     /\ \A t \in Tasks :
           (task[t].pc = "cf_respond" /\ task'[t] # task[t]
              /\ confirmations[task[t].confirmation_id].responded) =>
           (confirmations' = confirmations /\ prompts' = prompts)
    ]_vars

(* a second respond call is pending on a confirmation another interaction  *)
(* has answered                                                            *)
C10_Witness ==
  \E t \in Tasks :
     /\ task[t].pc = "cf_respond"
     /\ confirmations[task[t].confirmation_id].responded
     /\ confirmations[task[t].confirmation_id].summary # ModalSummary(t)

(* C11: at most one execution of the tick body is in flight in the process *)
(* at any time, whatever timer fires and on_ready events have happened.    *)
C11_OneTickInFlight ==
  Cardinality({i \in Scheds : sched[i].check_lock}) <= 1

PromptOverdue(s) ==
  /\ s \in DOMAIN attendance_sessions
  /\ ~Ended(s)
  /\ PolicyOf(s).require_confirmation
  /\ {c \in DOMAIN confirmations : confirmations[c].session_id = s} = {}
  /\ clock >= attendance_sessions[s].start_time + PolicyOf(s).check_interval

TimeoutOverdue(s) ==
  /\ s \in DOMAIN attendance_sessions
  /\ ~Ended(s)
  /\ PolicyOf(s).require_confirmation
  /\ \E c \in OutstandingIn(confirmations, s) :
        clock >= confirmations[c].prompt_time + PolicyOf(s).default_timeout

HasConfirmation(s) ==
  \E c \in DOMAIN confirmations : confirmations[c].session_id = s

EndedByNextStart(s) ==
  /\ s \in DOMAIN attendance_sessions
  /\ Ended(s)
  /\ attendance_sessions[s].end_summary = SummaryNewSession

AutoEnded(s) ==
  /\ s \in DOMAIN attendance_sessions
  /\ Ended(s)
  /\ attendance_sessions[s].status = "auto"

C13_EventuallyPromptedAndEnded ==
  \A s \in 1..MaxSessions :
     /\ PromptOverdue(s) ~> (HasConfirmation(s) \/ EndedByNextStart(s))
     /\ TimeoutOverdue(s) ~> (AutoEnded(s) \/ EndedByNextStart(s))

(* a session was prompted, never answered, and auto-ended default_timeout  *)
(* or more after the prompt                                                *)
C13_Witness ==
  \E s \in DOMAIN attendance_sessions :
     /\ AutoEnded(s)
     /\ \E c \in OutstandingIn(confirmations, s) :
           attendance_sessions[s].end_time >=
             confirmations[c].prompt_time + PolicyOf(s).default_timeout

(* C14: one invocation of the Processor makes at most one persistent       *)
(* transition: a step of the scheduler changes rows only as the one end    *)
(* write of the timeout path or as the one insert of the prompt path, the  *)
(* invocation is on one of the two paths only, and after its write it      *)
(* returns without another.                                                *)
RowsUnchanged ==
  attendance_sessions' = attendance_sessions /\ confirmations' = confirmations

C14_OneTransitionPerInvocation ==
  [][\A i \in Scheds :
        /\ (Stepped(i) /\ ~RowsUnchanged) =>
              \/ /\ sched[i].pc = "to_end"
                 /\ sched'[i].pc = "ui"
                 /\ sched'[i].session_id = sched[i].session_id
                 /\ confirmations' = confirmations
                 /\ \A s \in DOMAIN attendance_sessions :
                       s # sched[i].session_id =>
                          attendance_sessions'[s] = attendance_sessions[s]
              \/ /\ sched[i].pc = "insert"
                 /\ sched'[i].pc = "send"
                 /\ sched'[i].session_id = sched[i].session_id
                 /\ attendance_sessions' = attendance_sessions
                 /\ Len(confirmations') = Len(confirmations) + 1
                 /\ SubSeq(confirmations', 1, Len(confirmations)) = confirmations
        /\ (Stepped(i) /\ sched[i].pc \in {"ui", "send"}) =>
              (sched'[i].pc \in {"idle", "get1"} /\ RowsUnchanged)
        /\ sched'[i].pc \in {"to_get", "to_end", "ui"} => sched'[i].signal = "TIMED_OUT"
        /\ sched'[i].pc \in {"get3", "get4", "insert", "send"} =>
              sched'[i].signal = "PROMPT_DUE"
    ]_vars

(* an invocation ended its session and returned; the session has the one   *)
(* confirmation it had, nothing was inserted                               *)
C14_Witness ==
  \E i \in Scheds :
     /\ sched[i].pc = "idle"
     /\ sched[i].signal = "TIMED_OUT"
     /\ AutoEnded(sched[i].session_id)
     /\ gateway[sched[i].session_id].auto_end = 1
     /\ Cardinality({c \in DOMAIN confirmations :
                       confirmations[c].session_id = sched[i].session_id}) = 1

(* C15: once the prompt of a confirmation is delivered, the reference of   *)
(* the delivered message is on the confirmation row (message_id non-null), *)
(* so that a cleanup finds the message.                                    *)
C15_MessageReferenceRecorded ==
  \A c \in prompts : confirmations[c].message_id # NULL

(* C16: an invocation that observes two or more outstanding confirmations  *)
(* of its session treats it as AWAITING: it changes no session row and no  *)
(* confirmation row, also when one of them is older than default_timeout.  *)
C16_AmbiguousIsAwaiting ==
  [][\A i \in Scheds :
        (Stepped(i) /\ Cardinality(sched[i].pending) >= 2) => RowsUnchanged
    ]_vars

(* C17: the scheduler handles only sessions that were active and whose     *)
(* project had require_confirmation = true in the tick's candidate query:  *)
(* the candidates of a tick are exactly those sessions, a session of a     *)
(* project without require_confirmation never gets a confirmation and is   *)
(* never auto-ended.                                                       *)
Managed(sessions, s) == projects[sessions[s].project_id].require_confirmation

InHand(r) == r.rows \cup (IF r.pc = "idle" THEN {} ELSE {r.session_id})

C17_OnlyManagedSessions ==
  [][/\ \A i \in Scheds :
           /\ \A s \in InHand(sched'[i]) : Managed(attendance_sessions', s)
           /\ (Stepped(i) /\ ~sched[i].check_lock /\ sched'[i].check_lock) =>
                 InHand(sched'[i]) =
                   {s \in DOMAIN attendance_sessions :
                      attendance_sessions[s].end_time = NULL
                      /\ Managed(attendance_sessions, s)}
     /\ \A c \in DOMAIN confirmations' :
           Managed(attendance_sessions', confirmations'[c].session_id)
     /\ \A s \in DOMAIN attendance_sessions' :
           attendance_sessions'[s].status = "auto" => Managed(attendance_sessions', s)
    ]_vars

(* a session of the project without require_confirmation is active past    *)
(* its check_interval; the scheduler, which handled an earlier session,    *)
(* has since run a tick that found no candidate                            *)
C17_Witness ==
  \E s \in DOMAIN attendance_sessions :
     /\ ~Managed(attendance_sessions, s)
     /\ ~Ended(s)
     /\ clock >= attendance_sessions[s].start_time + PolicyOf(s).check_interval
     /\ ~HasConfirmation(s)
     /\ Len(confirmations) > 0
     /\ sched[FirstSched].pc = "idle"
     /\ sched[FirstSched].session_id = NULL

(* C18: processing a stale candidate is a no-op: when the session is ended *)
(* at the Processor's first re-read, the invocation returns in that step,  *)
(* changing no session or confirmation row and calling no gateway          *)
(* function.                                                               *)
GatewayUnchanged == prompts' = prompts /\ gateway' = gateway

C18_StaleCandidateNoOp ==
  [][\A i \in Scheds :
        (Stepped(i) /\ sched[i].pc = "get1" /\ Ended(sched[i].session_id)) =>
        /\ RowsUnchanged
        /\ GatewayUnchanged
        /\ \/ sched'[i].pc = "idle"
           \/ sched'[i].pc = "get1" /\ sched'[i].session_id \in sched[i].rows
    ]_vars

(* the invocation for an ended session has returned before taking now *)
C18_Witness ==
  \E i \in Scheds :
     /\ sched[i].pc = "idle"
     /\ sched[i].session_id \in DOMAIN attendance_sessions
     /\ Ended(sched[i].session_id)
     /\ sched[i].now = NULL
     /\ sched[i].signal = "NONE"

(* C19: an invocation whose evaluation is AWAITING or IDLE is over with    *)
(* that evaluation, and none of its steps changes a session row or a       *)
(* confirmation row or delivers, edits or deletes a message.               *)
C19_NoActionOnAwaitingOrIdle ==
  [][\A i \in Scheds :
        /\ sched'[i].signal \in {"AWAITING", "IDLE"} => sched'[i].pc = "idle"
        /\ (Stepped(i) /\ sched[i].pc \in {"get1", "pending", "get2", "calc"}) =>
              (RowsUnchanged /\ GatewayUnchanged)
        /\ (Stepped(i) /\ sched[i].signal \in {"AWAITING", "IDLE"}) =>
              (RowsUnchanged /\ GatewayUnchanged /\ sched'[i].signal = "NONE")
    ]_vars

(* after an AWAITING invocation the session is active, its prompt is still *)
(* on screen and no end message was sent                                   *)
C19_Witness ==
  \E i \in Scheds :
     /\ sched[i].pc = "idle"
     /\ sched[i].signal = "AWAITING"
     /\ ~Ended(sched[i].session_id)
     /\ gateway[sched[i].session_id] = NoCalls
     /\ \E c \in sched[i].pending :
           c.id \in prompts /\ ~confirmations[c.id].responded

(* C20: a store or gateway failure while one session of a tick is          *)
(* processed does not abort the tick: the failing step changes no row and  *)
(* sends nothing, the tick goes on with the next candidate, and the lock   *)
(* is left only when every candidate of the tick has had its invocation.   *)
C20_FailureIsolated ==
  [][\A i \in Scheds :
        /\ (Stepped(i) /\ sched[i].check_lock /\ sched'[i].errors # sched[i].errors) =>
              /\ RowsUnchanged
              /\ GatewayUnchanged
              /\ sched'[i].errors = sched[i].errors \cup {sched[i].session_id}
              /\ IF sched[i].rows = {}
                 THEN sched'[i].pc = "idle"
                 ELSE /\ sched'[i].pc = "get1"
                      /\ sched'[i].check_lock
                      /\ sched'[i].session_id \in sched[i].rows
        /\ (Stepped(i) /\ sched[i].check_lock) =>
              /\ sched'[i].rows \subseteq sched[i].rows
              /\ sched'[i].rows # sched[i].rows =>
                    /\ sched'[i].pc = "get1"
                    /\ sched[i].rows \ sched'[i].rows = {sched'[i].session_id}
              /\ ~sched'[i].check_lock => sched[i].rows = {}
    ]_vars

(* the processing of one candidate failed and another candidate of the     *)
(* same tick has been evaluated since                                      *)
C20_Witness ==
  \E i \in Scheds :
     /\ sched[i].errors # {}
     /\ sched[i].session_id \in DOMAIN attendance_sessions
     /\ sched[i].session_id \notin sched[i].errors
     /\ sched[i].signal # "NONE"

(* C21: when the candidate query of a tick fails, the tick ends in that    *)
(* step without changing a session or confirmation row and without a       *)
(* message; the lock is free and the in-flight set empty afterwards, and    *)
(* the next timer fire runs a normal tick.                                  *)
Candidates ==
  {s \in DOMAIN attendance_sessions :
     attendance_sessions[s].end_time = NULL /\ Managed(attendance_sessions, s)}

C21_QueryFailureSwallowed ==
  [][\A i \in Scheds :
        /\ (Stepped(i) /\ sched'[i].query_error /\ ~sched[i].check_lock) =>
              /\ RowsUnchanged
              /\ GatewayUnchanged
              /\ sched'[i].pc = "idle"
              /\ ~sched'[i].check_lock
              /\ sched'[i].processing_sessions = {}
              /\ sched'[i].rows = {}
              /\ sched'[i].waiting = 0
              /\ sched'[i].running
        /\ (sched[i].query_error /\ Candidates # {}) => ENABLED CheckActiveSessions(i)
        /\ (Stepped(i) /\ sched[i].query_error /\ ~sched'[i].query_error) =>
              /\ sched'[i].check_lock
              /\ sched'[i].pc = "get1"
              /\ InHand(sched'[i]) = Candidates
    ]_vars

(* a tick's query has failed; the scheduler is idle with the lock free     *)
(* while a candidate session waits for the next tick                       *)
C21_Witness ==
  \E i \in Scheds :
     /\ sched[i].query_error
     /\ sched[i].pc = "idle"
     /\ ~sched[i].check_lock
     /\ Candidates # {}
     /\ \E s \in Candidates : clock > attendance_sessions[s].start_time

(* C22: once the conditional auto-end write has succeeded, a failure of    *)
(* the UI hook leaves the session ended with status auto: the end fields   *)
(* of an auto-ended session never change again, and the failure is not an  *)
(* error of the session's processing, which returns to the loop.           *)
C22_NoRollbackOnUiFailure ==
  [][/\ \A i \in Scheds :
           (Stepped(i) /\ sched[i].pc = "ui") =>
              /\ RowsUnchanged
              /\ AutoEnded(sched[i].session_id)
              /\ sched'[i].errors = sched[i].errors
              /\ IF sched[i].rows = {}
                 THEN sched'[i].pc = "idle"
                 ELSE sched'[i].pc = "get1" /\ sched'[i].session_id \in sched[i].rows
     /\ \A s \in DOMAIN attendance_sessions :
           AutoEnded(s) =>
              /\ attendance_sessions'[s].end_time = attendance_sessions[s].end_time
              /\ attendance_sessions'[s].end_summary = attendance_sessions[s].end_summary
              /\ attendance_sessions'[s].status = attendance_sessions[s].status
    ]_vars

(* the hook of an auto-ended session failed: no end message was sent, the  *)
(* processing has returned, the session is ended with status auto          *)
C22_Witness ==
  \E s \in DOMAIN attendance_sessions :
     /\ AutoEnded(s)
     /\ attendance_sessions[s].end_summary = SummaryAuto
     /\ gateway[s].auto_end = 0
     /\ \A i \in Scheds : ~(sched[i].pc = "ui" /\ sched[i].session_id = s)
     /\ sched[FirstSched].errors = {}

(* C23: when the process stops right after the auto-end write and before   *)
(* the notification side effects, then after the restart the session stays *)
(* ended with the same fields, no tick has it as a candidate, and nothing   *)
(* more happens for it: no end write, no confirmation insert, no auto-end   *)
(* notification.                                                            *)
Orphaned(s) ==
  /\ AutoEnded(s)
  /\ gateway[s].auto_end = 0
  /\ \A i \in Scheds : ~(sched[i].pc = "ui" /\ sched[i].session_id = s)

ConfirmationsOf(confs, s) ==
  {c \in DOMAIN confs : confs[c].session_id = s}

C23_EndSurvivesRestart ==
  [][\A s \in DOMAIN attendance_sessions :
        Orphaned(s) =>
           /\ attendance_sessions'[s] = attendance_sessions[s]
           /\ ConfirmationsOf(confirmations', s) = ConfirmationsOf(confirmations, s)
           /\ \A c \in ConfirmationsOf(confirmations, s) : confirmations'[c] = confirmations[c]
           /\ gateway'[s] = gateway[s]
           /\ \A i \in Scheds : s \notin InHand(sched'[i])
    ]_vars

(* the process stopped between the end write and the hook; after the       *)
(* restart a tick has run for another session                              *)
C23_Witness ==
  \E s \in DOMAIN attendance_sessions :
     /\ Orphaned(s)
     /\ sched[FirstSched].session_id \in DOMAIN attendance_sessions
     /\ sched[FirstSched].session_id # s
     /\ sched[FirstSched].now # NULL
     /\ sched[FirstSched].now >= attendance_sessions[s].end_time

(* C24: a session id is in the in-flight set exactly while the Processor   *)
(* runs for it, also when the processing raised; no remaining candidate of *)
(* the tick is in the set, and the set is empty whenever no tick runs.     *)
C24_InFlightSet ==
  \A i \in Scheds :
     /\ sched[i].processing_sessions =
          (IF sched[i].pc = "idle" THEN {} ELSE {sched[i].session_id})
     /\ sched[i].rows \cap sched[i].processing_sessions = {}
     /\ ~sched[i].check_lock => sched[i].processing_sessions = {}

(* the processing of a session raised, the tick is over and the set is     *)
(* empty                                                                   *)
C24_Witness ==
  \E i \in Scheds :
     /\ sched[i].errors # {}
     /\ sched[i].pc = "idle"
     /\ ~sched[i].check_lock
     /\ sched[i].processing_sessions = {}
     /\ sched[i].session_id \in sched[i].errors

(* the scheduler's step that changes the row of session s *)
TimeoutTransition(s) ==
  /\ attendance_sessions'[s] # attendance_sessions[s]
  /\ \E i \in Scheds : Stepped(i) /\ sched[i].session_id = s

(* the end-work handler's step that changes the row of session s *)
EndWorkTransition(s) ==
  /\ attendance_sessions'[s] # attendance_sessions[s]
  /\ \E t \in Tasks : task[t].pc = "ew_end" /\ task'[t] # task[t] /\ task[t].session_id = s

(* C25: the timeout transition ends a session in one update that applies   *)
(* only to a row with end_time = null and writes end_time, end_summary and *)
(* status auto together; the end-work path writes status manual.           *)
C25_EndStatus ==
  [][\A s \in DOMAIN attendance_sessions :
        /\ TimeoutTransition(s) =>
              /\ attendance_sessions[s].end_time = NULL
              /\ attendance_sessions'[s] =
                   [attendance_sessions[s] EXCEPT !.end_time = clock,
                                                  !.end_summary = SummaryAuto,
                                                  !.status = "auto"]
              /\ attendance_sessions'[s].end_time # NULL
              /\ attendance_sessions'[s].end_summary # "none"
        /\ EndWorkTransition(s) =>
              /\ attendance_sessions[s].end_time = NULL
              /\ attendance_sessions'[s].end_time = clock
              /\ attendance_sessions'[s].status = "manual"
        /\ attendance_sessions'[s].status = "auto" =>
              /\ attendance_sessions'[s].end_time # NULL
              /\ attendance_sessions'[s].end_summary = SummaryAuto
    ]_vars

(* one session was ended by the timeout transition and another one by      *)
(* end-work                                                                *)
C25_Witness ==
  \E s1, s2 \in DOMAIN attendance_sessions :
     /\ AutoEnded(s1) /\ gateway[s1].auto_end = 1
     /\ Ended(s2) /\ attendance_sessions[s2].status = "manual" /\ gateway[s2].end_work = 1

(* a step of the timeout path or of the end-work path on session s, from   *)
(* the end write to the end of the message cleanup                         *)
EndingStep(s) ==
  \/ \E i \in Scheds : /\ sched[i].pc \in {"to_end", "ui"}
                       /\ sched[i].session_id = s
                       /\ Stepped(i)
  \/ \E t \in Tasks : /\ task[t].pc \in {"ew_end", "ew_ui"}
                      /\ task[t].session_id = s
                      /\ task'[t] # task[t]

(* C26: no step removes a Confirmation row or moves it to another session, *)
(* and the steps that end a session, its message cleanup included, leave   *)
(* every confirmation as it was: the timed-out one stays responded = false *)
(* with null response_time.                                                *)
C26_ConfirmationsKept ==
  [][/\ Len(confirmations') >= Len(confirmations)
     /\ \A c \in DOMAIN confirmations :
           /\ confirmations'[c].session_id = confirmations[c].session_id
           /\ confirmations'[c].prompt_time = confirmations[c].prompt_time
     /\ \A s \in DOMAIN attendance_sessions :
           /\ EndingStep(s) => confirmations' = confirmations
           /\ (~Ended(s) /\ Ended(s)') =>
                 \A c \in ConfirmationsOf(confirmations, s) :
                    /\ confirmations'[c] = confirmations[c]
                    /\ ~confirmations[c].responded =>
                          /\ ~confirmations'[c].responded
                          /\ confirmations'[c].response_time = NULL
    ]_vars

(* a session was auto-ended and its UI update is done, its timed-out       *)
(* confirmation is still unanswered, and another confirmation was answered *)
C26_Witness ==
  \E s \in DOMAIN attendance_sessions :
     /\ AutoEnded(s)
     /\ gateway[s].auto_end = 1
     /\ \E c \in ConfirmationsOf(confirmations, s) :
           ~confirmations[c].responded /\ confirmations[c].response_time = NULL
     /\ \E c \in DOMAIN confirmations : confirmations[c].responded

(* the decision of _process_session on one reading of its inputs: the      *)
(* branch on the outstanding confirmations, then the comparison of now     *)
(* with the next confirmation time                                         *)
Evaluate(start_time, session_confirmations, check_interval, default_timeout, now) ==
  LET pending == {c \in session_confirmations : ~c.responded}
      decision == PendingDecision(pending, default_timeout, now)
  IN IF decision # "NONE" THEN decision
     ELSE IF now >= CalculateNextConfirmationTime(session_confirmations, start_time,
                                                  check_interval)
          THEN "PROMPT_DUE"
          ELSE "IDLE"

EvaluateSession(r) ==
  Evaluate(attendance_sessions[r.session_id].start_time,
           GetSessionConfirmations(confirmations, r.session_id),
           PolicyOf(r.session_id).check_interval,
           PolicyOf(r.session_id).default_timeout,
           r.now)

(* the Processor is done with its session: the tick ends or goes on to the *)
(* next candidate                                                          *)
Returned(i) == sched'[i].pc \in {"idle", "get1"}

(* C28: the branch the Processor takes is the value of one function of     *)
(* (start_time, the session's confirmations, check_interval,               *)
(* default_timeout, now), now being the time taken at the start of the     *)
(* processing.                                                             *)
C28_DecisionIsFunctionOfInputs ==
  [][\A i \in Scheds :
        /\ (sched[i].pc = "pending" /\ Stepped(i)) =>
              /\ EvaluateSession(sched[i]) = "TIMED_OUT" <=> sched'[i].pc = "to_get"
              /\ EvaluateSession(sched[i]) = "AWAITING" <=> Returned(i)
              /\ EvaluateSession(sched[i]) \in {"PROMPT_DUE", "IDLE"}
                    <=> sched'[i].pc = "get2"
        /\ (sched[i].pc = "calc" /\ Stepped(i)) =>
              /\ EvaluateSession(sched[i]) = "PROMPT_DUE" <=> sched'[i].pc = "get3"
              /\ EvaluateSession(sched[i]) = "IDLE" <=> Returned(i)
              /\ sched'[i].pc = "get3" => sched'[i].signal = "PROMPT_DUE"
    ]_vars

(* a prompt was found due check_interval after the answer to the previous  *)
(* one                                                                     *)
C28_Witness ==
  \E i \in Scheds :
     /\ sched[i].pc = "get3"
     /\ sched[i].signal = "PROMPT_DUE"
     /\ sched[i].now = sched[i].due
     /\ \E c \in ConfirmationsOf(confirmations, sched[i].session_id) :
           confirmations[c].responded

(* C30: the scheduler's end write changes a session's row only when, at    *)
(* that moment, the session has a confirmation with responded = false that *)
(* is default_timeout old or older, a response committed after the read of *)
(* the outstanding confirmations included.                                 *)
C30_EndOnlyWhileOutstanding ==
  [][\A s \in DOMAIN attendance_sessions :
        TimeoutTransition(s) =>
           \E c \in OutstandingIn(confirmations, s) :
              clock - confirmations[c].prompt_time >= PolicyOf(s).default_timeout
    ]_vars

(* _process_session on session s with nothing else running: the store it   *)
(* leaves, from the store it finds and the now it takes                    *)
ProcessSession(store, s, now) ==
  IF ~GetSessionActive(store.sessions, s) THEN store
  ELSE LET policy == projects[store.sessions[s].project_id]
           signal == Evaluate(store.sessions[s].start_time,
                              GetSessionConfirmations(store.confs, s),
                              policy.check_interval, policy.default_timeout, now)
       IN CASE signal = "TIMED_OUT" ->
                 [store EXCEPT !.sessions = EndSession(@, s, now, SummaryAuto, "auto")]
            [] signal = "PROMPT_DUE" ->
                 [store EXCEPT !.confs = CreateConfirmation(@, s, now)]
            [] OTHER -> store

(* the loop of _check_active_sessions over the candidates in one order *)
RECURSIVE TickResult(_, _, _)
TickResult(store, order, now) ==
  IF order = <<>> THEN store
  ELSE TickResult(ProcessSession(store, Head(order), now), Tail(order), now)

Orders(S) ==
  {o \in [1..Cardinality(S) -> S] : \A j, k \in DOMAIN o : j # k => o[j] # o[k]}

(* the rows of a store: the sessions, and for every session its            *)
(* confirmations in the order of their insertion                           *)
Persistent(store) ==
  [sessions |-> store.sessions,
   confs |-> [s \in DOMAIN store.sessions |->
                SelectSeq(store.confs, LAMBDA c : c.session_id = s)]]

Store == [sessions |-> attendance_sessions, confs |-> confirmations]

(* C27: a step of the Processor on a session changes no other session's    *)
(* row and no other session's confirmations, and from every reachable      *)
(* store, at a fixed clock, the rows a tick leaves are the same for every  *)
(* order of its candidates.                                                *)
SameForEveryOrder ==
  \A o1, o2 \in Orders(ActiveSessionsRequiringConfirmation(attendance_sessions)) :
     Persistent(TickResult(Store, o1, clock)) = Persistent(TickResult(Store, o2, clock))

C27_OrderIndependent ==
  /\ [][\A i \in Scheds : Stepped(i) =>
           /\ \A s \in DOMAIN attendance_sessions :
                 s # sched[i].session_id => attendance_sessions'[s] = attendance_sessions[s]
           /\ \A c \in DOMAIN confirmations : confirmations'[c] = confirmations[c]
           /\ \A c \in DOMAIN confirmations' \ DOMAIN confirmations :
                 confirmations'[c].session_id = sched[i].session_id
       ]_vars
  /\ []SameForEveryOrder

(* two candidates, and the tick inserts a confirmation for each: the       *)
(* inserts happen in the order of processing                               *)
C27_Witness ==
  \E o1, o2 \in Orders(ActiveSessionsRequiringConfirmation(attendance_sessions)) :
     /\ Len(o1) = 2
     /\ TickResult(Store, o1, clock).confs # TickResult(Store, o2, clock).confs

(* the seconds a field's text stands for, before the adjustment of the     *)
(* timeout: the default for a text that is no number or no positive one    *)
FieldSeconds(text, default) ==
  IF text \in {"1", "2", "100"} THEN IntOf(text) * 60 ELSE default

(* the timing a handled modal wrote: the project's row or the draft *)
Written ==
  IF timing_modal.flow = "edit" THEN project_rows'[timing_modal.project_id]
  ELSE temp_project_data'

(* C29: every row of projects written by the creation flow or the timing   *)
(* modal has 0 < default_timeout <= check_interval; a text that is no      *)
(* number or not positive gives check_interval 3600, default_timeout 900,  *)
(* and a default_timeout above check_interval becomes check_interval.      *)
C29_TimingInvariant ==
  [][/\ \A p \in DOMAIN project_rows' :
           /\ 0 < project_rows'[p].default_timeout
           /\ project_rows'[p].default_timeout <= project_rows'[p].check_interval
     /\ (timing_modal.submitted /\ ~timing_modal'.submitted) =>
          LET ci == FieldSeconds(timing_modal.check_interval_input, 3600)
              dt == FieldSeconds(timing_modal.default_timeout_input, 900)
          IN /\ Written.check_interval = ci
             /\ Written.default_timeout = IF dt > ci THEN ci ELSE dt
     /\ \A p \in DOMAIN project_rows' \ DOMAIN project_rows :
           /\ project_rows'[p] = temp_project_data
           /\ 0 < temp_project_data.default_timeout
           /\ temp_project_data.default_timeout <= temp_project_data.check_interval
    ]_vars

(* the timing modal of a stored project was handled with a text that is no *)
(* number as check_interval and a timeout above 3600: the row has 3600     *)
(* for both                                                                *)
C29_Witness ==
  /\ timing_modal.flow = "edit"
  /\ ~timing_modal.submitted
  /\ timing_modal.check_interval_input = "abc"
  /\ timing_modal.default_timeout_input = "100"
  /\ project_rows[timing_modal.project_id] =
       [check_interval |-> 3600, default_timeout |-> 3600]
  /\ Len(project_rows) = 2

(* every confirmation of session s is answered, each less than             *)
(* default_timeout after its prompt_time                                   *)
AnsweredInTime(s) ==
  \A c \in ConfirmationsOf(confirmations, s) :
     /\ confirmations[c].responded
     /\ confirmations[c].response_time - confirmations[c].prompt_time
          < PolicyOf(s).default_timeout

(* C31: a session whose confirmations are all answered less than           *)
(* default_timeout after their prompt_time does not have status auto,      *)
(* whatever the interleaving of ticks and responses was.                   *)
C31_AnsweredInTimeNeverAuto ==
  \A s \in DOMAIN attendance_sessions : AnsweredInTime(s) => ~AutoEnded(s)

(* confirmation c is outstanding and its delivery failed: no prompt        *)
(* message of it exists and none is being sent                             *)
Undelivered(c) ==
  /\ ~confirmations[c].responded
  /\ c \notin prompts
  /\ \A i \in Scheds : ~(sched[i].pc = "send" /\ sched[i].confirmation_id = c)

UndeliveredOverdue(s) ==
  /\ s \in DOMAIN attendance_sessions
  /\ ~Ended(s)
  /\ \E c \in OutstandingIn(confirmations, s) :
        /\ Undelivered(c)
        /\ clock >= confirmations[c].prompt_time + PolicyOf(s).default_timeout

(* C32: the Confirmation row is inserted before the delivery is tried; a   *)
(* failed delivery leaves the row as it is, outstanding; no confirmation   *)
(* is inserted for the session while the row is outstanding; and once      *)
(* default_timeout has elapsed since its prompt_time the session is        *)
(* auto-ended, unless the user's next start ended it before.               *)
C32_UndeliveredStillTimesOut ==
  /\ [][/\ \A i \in Scheds :
             /\ (sched[i].pc = "insert" /\ Stepped(i)) =>
                   /\ prompts' = prompts
                   /\ confirmations' = Append(confirmations, confirmations'[Len(confirmations')])
                   /\ confirmations'[Len(confirmations')].session_id = sched[i].session_id
                   /\ ~confirmations'[Len(confirmations')].responded
                   /\ sched'[i].pc = "send"
             /\ (sched[i].pc = "send" /\ Stepped(i)) =>
                   /\ confirmations' = confirmations
                   /\ prompts' \in {prompts, prompts \cup {sched[i].confirmation_id}}
        /\ \A c \in DOMAIN confirmations :
              Undelivered(c) =>
                 /\ confirmations'[c] = confirmations[c]
                 /\ \A d \in DOMAIN confirmations' \ DOMAIN confirmations :
                       confirmations'[d].session_id # confirmations[c].session_id
       ]_vars
  /\ \A s \in 1..MaxSessions :
        UndeliveredOverdue(s) ~> (AutoEnded(s) \/ EndedByNextStart(s))

(* the end write is about to be made for a session whose outstanding       *)
(* confirmation was never delivered                                        *)
C32_Witness ==
  \E i \in Scheds :
     /\ sched[i].pc = "to_end"
     /\ OutstandingIn(confirmations, sched[i].session_id) # {}
     /\ \A c \in OutstandingIn(confirmations, sched[i].session_id) : Undelivered(c)
     /\ ~Ended(sched[i].session_id)

(* C33: the confirmations of a session are spaced by check_interval: the   *)
(* first one's prompt_time is start_time + check_interval or later, and    *)
(* every later one's prompt_time is check_interval or more after every     *)
(* response_time of the session's earlier confirmations.                   *)
C33_SpacedByCheckInterval ==
  \A s \in DOMAIN attendance_sessions :
     \A c \in ConfirmationsOf(confirmations, s) :
        LET earlier == {d \in ConfirmationsOf(confirmations, s) : d < c}
        IN IF earlier = {}
           THEN confirmations[c].prompt_time >=
                  attendance_sessions[s].start_time + PolicyOf(s).check_interval
           ELSE \A d \in earlier :
                   confirmations[d].responded =>
                      confirmations[c].prompt_time >=
                        confirmations[d].response_time + PolicyOf(s).check_interval

(* a session has a second confirmation, prompted exactly check_interval    *)
(* after the answer to the first                                           *)
C33_Witness ==
  \E s \in DOMAIN attendance_sessions :
     \E c, d \in ConfirmationsOf(confirmations, s) :
        /\ d < c
        /\ confirmations[d].responded
        /\ confirmations[c].prompt_time =
             confirmations[d].response_time + PolicyOf(s).check_interval

(* C34: the end_session call of handle_end_work touches only the session   *)
(* observed at the button press: when that session has been ended          *)
(* meanwhile, the call changes no row, a newer session of the user stays   *)
(* active, and neither the completion UI update nor the prompt cleanup is  *)
(* made.                                                                   *)
C34_EndWorkEndsObservedOnly ==
  [][\A t \in Tasks :
        (task[t].pc = "ew_end" /\ task'[t] # task[t]) =>
           /\ \A s \in DOMAIN attendance_sessions :
                 s # task[t].session_id => attendance_sessions'[s] = attendance_sessions[s]
           /\ Ended(task[t].session_id) =>
                 /\ attendance_sessions' = attendance_sessions
                 /\ task'[t] = IdleTask
                 /\ gateway' = gateway
                 /\ prompts' = prompts
           /\ task'[t].pc = "ew_ui" =>
                 /\ ~Ended(task[t].session_id)
                 /\ task'[t].session_id = task[t].session_id
    ]_vars

(* the summary modal of end-work is open for a session the scheduler has   *)
(* auto-ended, and the user has started a newer session                    *)
C34_Witness ==
  \E t \in Tasks :
     /\ task[t].pc = "ew_end"
     /\ AutoEnded(task[t].session_id)
     /\ \E s2 \in DOMAIN attendance_sessions :
           /\ s2 > task[t].session_id
           /\ ~Ended(s2)
           /\ attendance_sessions[s2].guild_user_id = task[t].guild_user_id

(* C35: the respond_to_confirmation call of an interaction changes no      *)
(* session row and no confirmation but its own, also when the owning       *)
(* session was ended while the modal was open: the session keeps its       *)
(* end_time, end_summary and status.                                       *)
C35_RespondChangesOneRow ==
  [][\A t \in Tasks :
        (task[t].pc = "cf_respond" /\ task'[t] # task[t]) =>
           /\ attendance_sessions' = attendance_sessions
           /\ DOMAIN confirmations' = DOMAIN confirmations
           /\ \A c \in DOMAIN confirmations :
                 c # task[t].confirmation_id => confirmations'[c] = confirmations[c]
           /\ confirmations'[task[t].confirmation_id].session_id =
                confirmations[task[t].confirmation_id].session_id
           /\ gateway' = gateway
    ]_vars

(* the modal is open for an outstanding confirmation whose session the     *)
(* scheduler has auto-ended                                                *)
C35_Witness ==
  \E t \in Tasks :
     /\ task[t].pc = "cf_respond"
     /\ ~confirmations[task[t].confirmation_id].responded
     /\ AutoEnded(confirmations[task[t].confirmation_id].session_id)

(* C36: start_session, run with no other start_session beside it, ends the *)
(* active session it found through the conditional end write with status  *)
(* manual and then inserts the new session: afterwards the new session is  *)
(* the user's only active one, and no confirmation was changed.            *)
C36_StartEndsThenInserts ==
  [][\A t \in Tasks :
        /\ (task[t].pc = "ss_end" /\ task'[t] # task[t]) =>
              LET s == task[t].session_id IN
              /\ confirmations' = confirmations
              /\ attendance_sessions' =
                   [attendance_sessions EXCEPT ![s] =
                      IF attendance_sessions[s].end_time = NULL
                      THEN [@ EXCEPT !.end_time = clock,
                                     !.end_summary = SummaryNewSession,
                                     !.status = "manual"]
                      ELSE @]
              /\ task'[t].pc = "ss_insert"
        /\ (task[t].pc = "ss_insert" /\ task'[t] # task[t]) =>
              LET new == Len(attendance_sessions) + 1 IN
              /\ confirmations' = confirmations
              /\ DOMAIN attendance_sessions' = 1..new
              /\ \A s \in DOMAIN attendance_sessions :
                    attendance_sessions'[s] = attendance_sessions[s]
              /\ attendance_sessions'[new].guild_user_id = task[t].guild_user_id
              /\ ActiveOf(attendance_sessions', task[t].guild_user_id) = {new}
        /\ (task[t].pc = "idle" /\ task'[t].pc \in {"ss_end", "ss_insert"}) =>
              (task'[t].pc = "ss_end"
                 <=> ActiveOf(attendance_sessions, task'[t].guild_user_id) # {})
    ]_vars

(* start_session has ended a session that had a confirmation and has       *)
(* inserted the new one                                                    *)
C36_Witness ==
  \E t \in Tasks :
     /\ task[t].pc = "ps_update"
     /\ ~Ended(task[t].session_id)
     /\ \E s \in DOMAIN attendance_sessions :
           /\ EndedByNextStart(s)
           /\ attendance_sessions[s].status = "manual"
           /\ attendance_sessions[s].end_time = attendance_sessions[task[t].session_id].start_time
           /\ ConfirmationsOf(confirmations, s) # {}

(* C37: the prompt of an outstanding confirmation stays available from    *)
(* its delivery until default_timeout has elapsed since prompt_time: a     *)
(* step removes a delivered prompt only if afterwards its confirmation is  *)
(* answered, its session is ended, or default_timeout has elapsed.         *)
C37_PromptAvailableUntilTimeout ==
  [][\A c \in prompts :
        (/\ ~confirmations'[c].responded
         /\ attendance_sessions'[confirmations'[c].session_id].end_time = NULL
         /\ clock' - confirmations'[c].prompt_time
              < PolicyOf(confirmations'[c].session_id).default_timeout)
        => c \in prompts']_vars

(* C38: start and stop of a scheduler are idempotent: start on a running   *)
(* scheduler and stop on a stopped one change nothing; a start leaves      *)
(* running true with the one job 'check_active_sessions', a stop leaves    *)
(* running false, no other step changes running, and never more than one   *)
(* job is registered.                                                      *)
C38_StartStopIdempotent ==
  /\ [][\A i \in Scheds :
          /\ SchedulerStart(i) => sched'[i].running /\ sched'[i].jobs = <<JobId>>
          /\ SchedulerStop(i) => ~sched'[i].running
          /\ sched'[i].running # sched[i].running
               => SchedulerStart(i) \/ SchedulerStop(i)]_vars
  /\ [](\A i \in Scheds :
          /\ sched[i].running => start(sched[i]) = sched[i]
          /\ ~sched[i].running => stop(sched[i]) = {sched[i]}
          /\ Len(sched[i].jobs) <= 1
          /\ sched[i].running => sched[i].jobs = <<JobId>>)

(* a scheduler stopped in the middle of a tick whose job store still lists *)
(* the job: the next start adds the job with the same id again             *)
C38_Witness ==
  /\ ~sched[FirstSched].running
  /\ sched[FirstSched].jobs = <<JobId>>
  /\ sched[FirstSched].pc # "idle"

(* the branch of _calculate_next_confirmation_time for a session that has  *)
(* confirmations and none of them responded                                *)
OnlyUnresponded(all_confirmations) ==
  /\ all_confirmations # {}
  /\ {c \in all_confirmations : c.responded} = {}

(* C39: whenever the Processor calls _calculate_next_confirmation_time,     *)
(* every confirmation of the session is responded, so the branch for only  *)
(* unresponded confirmations is not taken, with one scheduler.             *)
C39_OnlyUnrespondedBranchDead ==
  \A i \in Scheds :
     sched[i].pc = "calc"
       => LET all == GetSessionConfirmations(confirmations, sched[i].session_id)
          IN /\ \A c \in all : c.responded
             /\ ~OnlyUnresponded(all)

(* the Processor is about to calculate for a session that has a            *)
(* confirmation                                                            *)
C39_Witness ==
  \E i \in Scheds :
     /\ sched[i].pc = "calc"
     /\ GetSessionConfirmations(confirmations, sched[i].session_id) # {}

====
